---- MODULE Spec2Model ----
(***************************************************************************)
(* Model of drivers/rtc/rtc-mca.c: the real time clock driver for the MCA  *)
(* companion microcontroller of ConnectCore modules.                       *)
(*                                                                         *)
(* A struct rtc_time is a record of its six calendar fields in the kernel  *)
(* convention (tm_year = year - 1900, tm_mon = month - 1).  A register     *)
(* block is a sequence of 7 bytes indexed DATA_YEAR_L+1 .. DATA_SEC+1.     *)
(* A time64_t / unsigned long number of seconds is a pair <<days, secs>>   *)
(* with 0 <= secs < 86400, standing for days * 86400 + secs, so that the   *)
(* year 65535 stays inside the integers the model checker computes with.   *)
(***************************************************************************)
EXTENDS Integers, Sequences, FiniteSets, TLC

VARIABLES
    BITS_PER_LONG,   \* width of unsigned long in the build: 32 or 64
    p_pc,            \* codec / adjustment harness: position
    p_tm,            \* codec / adjustment harness: the input time
    p_data0,         \* codec harness: the buffer before mca_tm_to_data
    p_data,          \* codec harness: the buffer after mca_tm_to_data
    p_out,           \* codec / adjustment harness: the time computed last
    regs,            \* the MCA registers behind rtc->mca->regmap
    rtc,             \* struct mca_rtc: alarm_enabled, prepare_enabled
    may_wakeup,      \* device_may_wakeup(&pdev->dev)
    suspended,       \* between mca_rtc_suspend and mca_rtc_resume
    off,             \* the system is powered off: the poweroff hook has run
    wake_moved,      \* the wake setting was changed between a suspend and its resume
    call,            \* the driver entry point that ran last, with its outcome
    task             \* the entry points under way, each one's position in its code

pvars == <<p_pc, p_tm, p_data0, p_data, p_out>>

\* how many callers are inside the driver at once
MaxTask == 2

Tasks == 1..MaxTask

\* a caller outside the driver
Idle == [op |-> "none", pc |-> "idle", tm |-> <<>>, enabled |-> 0]

NoTasks == [i \in Tasks |-> Idle]

-----------------------------------------------------------------------------
(* Bounds of the model *)

\* how many entries of TimeSamples the codec / adjustment harness draws from
MaxSample == 10
\* how many entries of FillBytes an initial buffer byte is drawn from
MaxFill == 2
\* how many entries of TimeSamples the driver entry points are called with
MaxDrvSample == 2

-----------------------------------------------------------------------------
(* Bit operations on non-negative integers *)

RECURSIVE BitAnd(_, _)
BitAnd(x, y) ==
    IF x = 0 \/ y = 0 THEN 0
    ELSE (x % 2) * (y % 2) + 2 * BitAnd(x \div 2, y \div 2)

RECURSIVE BitOr(_, _)
BitOr(x, y) ==
    IF x = 0 THEN y
    ELSE IF y = 0 THEN x
    ELSE (IF x % 2 = 1 \/ y % 2 = 1 THEN 1 ELSE 0) + 2 * BitOr(x \div 2, y \div 2)

\* (u8)~m, and ~m as it acts on a u8 operand
NotU8(m) == 255 - m
\* x >> 8
Shr8(x) == x \div 256
\* x << 8
Shl8(x) == x * 256
\* store into a u8
U8(x) == x % 256

-----------------------------------------------------------------------------
(* Register layout (linux/mfd/mca-common/registers.h) *)

MCA_RTC_YEAR_L_MASK == 255
MCA_RTC_YEAR_H_MASK == 255
MCA_RTC_MONTH_MASK == 15
MCA_RTC_DAY_MASK == 31
MCA_RTC_HOUR_MASK == 31
MCA_RTC_MIN_MASK == 63
MCA_RTC_SEC_MASK == 63

\* enum { DATA_YEAR_L, ... DATA_SEC }, shifted by one for 1-based sequences
DATA_YEAR_L == 1
DATA_YEAR_H == 2
DATA_MONTH == 3
DATA_DAY == 4
DATA_HOUR == 5
DATA_MIN == 6
DATA_SEC == 7

CLOCK_DATA_LEN == 7

\* u8 data[CLOCK_DATA_LEN] = { [0 ... (CLOCK_DATA_LEN - 1)] = 0 }
ZeroData == [i \in 1..CLOCK_DATA_LEN |-> 0]

\* the mask each byte of a register block is used with
FieldMask ==
    <<MCA_RTC_YEAR_L_MASK, MCA_RTC_YEAR_H_MASK, MCA_RTC_MONTH_MASK,
      MCA_RTC_DAY_MASK, MCA_RTC_HOUR_MASK, MCA_RTC_MIN_MASK, MCA_RTC_SEC_MASK>>

-----------------------------------------------------------------------------
(* struct rtc_time *)

MkTm(year, mon, mday, hour, min, sec) ==
    [tm_year |-> year - 1900, tm_mon |-> mon - 1, tm_mday |-> mday,
     tm_hour |-> hour, tm_min |-> min, tm_sec |-> sec]

NoTm == [tm_year |-> -1, tm_mon |-> -1, tm_mday |-> -1,
         tm_hour |-> -1, tm_min |-> -1, tm_sec |-> -1]

-----------------------------------------------------------------------------
(* Register codec *)

mca_data_to_tm_nomask(data) ==
    [tm_year |-> (Shl8(data[DATA_YEAR_H]) + data[DATA_YEAR_L]) - 1900,
     tm_mon  |-> data[DATA_MONTH] - 1,
     tm_mday |-> data[DATA_DAY],
     tm_hour |-> data[DATA_HOUR],
     tm_min  |-> data[DATA_MIN],
     tm_sec  |-> data[DATA_SEC]]

mca_data_to_tm_month0(data) ==
    [tm_year |-> BitOr(Shl8(BitAnd(data[DATA_YEAR_H], MCA_RTC_YEAR_H_MASK)),
                       BitAnd(data[DATA_YEAR_L], MCA_RTC_YEAR_L_MASK)) - 1900,
     tm_mon  |-> BitAnd(data[DATA_MONTH], MCA_RTC_MONTH_MASK),
     tm_mday |-> BitAnd(data[DATA_DAY], MCA_RTC_DAY_MASK),
     tm_hour |-> BitAnd(data[DATA_HOUR], MCA_RTC_HOUR_MASK),
     tm_min  |-> BitAnd(data[DATA_MIN], MCA_RTC_MIN_MASK),
     tm_sec  |-> BitAnd(data[DATA_SEC], MCA_RTC_SEC_MASK)]

mca_data_to_tm(data) ==
    [tm_year |-> BitOr(Shl8(BitAnd(data[DATA_YEAR_H], MCA_RTC_YEAR_H_MASK)),
                       BitAnd(data[DATA_YEAR_L], MCA_RTC_YEAR_L_MASK)) - 1900,
     tm_mon  |-> BitAnd(data[DATA_MONTH], MCA_RTC_MONTH_MASK) - 1,
     tm_mday |-> BitAnd(data[DATA_DAY], MCA_RTC_DAY_MASK),
     tm_hour |-> BitAnd(data[DATA_HOUR], MCA_RTC_HOUR_MASK),
     tm_min  |-> BitAnd(data[DATA_MIN], MCA_RTC_MIN_MASK),
     tm_sec  |-> BitAnd(data[DATA_SEC], MCA_RTC_SEC_MASK)]

\* data[i] &= ~mask; data[i] |= value & mask;
SetField(byte, mask, value) ==
    U8(BitOr(BitAnd(byte, NotU8(mask)), BitAnd(value, mask)))

mca_tm_to_data_overwrite(tm, data) ==
    [i \in 1..CLOCK_DATA_LEN |->
        CASE i = DATA_YEAR_L -> U8(BitAnd(tm.tm_year + 1900, MCA_RTC_YEAR_L_MASK))
          [] i = DATA_YEAR_H -> U8(BitAnd(Shr8(tm.tm_year + 1900), MCA_RTC_YEAR_H_MASK))
          [] i = DATA_MONTH  -> U8(BitAnd(tm.tm_mon + 1, MCA_RTC_MONTH_MASK))
          [] i = DATA_DAY    -> U8(BitAnd(tm.tm_mday, MCA_RTC_DAY_MASK))
          [] i = DATA_HOUR   -> U8(BitAnd(tm.tm_hour, MCA_RTC_HOUR_MASK))
          [] i = DATA_MIN    -> U8(BitAnd(tm.tm_min, MCA_RTC_MIN_MASK))
          [] i = DATA_SEC    -> U8(BitAnd(tm.tm_sec, MCA_RTC_SEC_MASK))]

mca_tm_to_data(tm, data) ==
    [i \in 1..CLOCK_DATA_LEN |->
        CASE i = DATA_YEAR_L ->
                SetField(data[i], MCA_RTC_YEAR_L_MASK, tm.tm_year + 1900)
          [] i = DATA_YEAR_H ->
                SetField(data[i], MCA_RTC_YEAR_H_MASK, Shr8(tm.tm_year + 1900))
          [] i = DATA_MONTH  -> SetField(data[i], MCA_RTC_MONTH_MASK, tm.tm_mon + 1)
          [] i = DATA_DAY    -> SetField(data[i], MCA_RTC_DAY_MASK, tm.tm_mday)
          [] i = DATA_HOUR   -> SetField(data[i], MCA_RTC_HOUR_MASK, tm.tm_hour)
          [] i = DATA_MIN    -> SetField(data[i], MCA_RTC_MIN_MASK, tm.tm_min)
          [] i = DATA_SEC    -> SetField(data[i], MCA_RTC_SEC_MASK, tm.tm_sec)]

-----------------------------------------------------------------------------
(* Calendar library of the RTC core (drivers/rtc/lib.c, kernel/time/time.c) *)

is_leap_year(year) ==
    (year % 4 = 0 /\ year % 100 # 0) \/ year % 400 = 0

rtc_days_in_month == <<31, 28, 31, 30, 31, 30, 31, 31, 30, 31, 30, 31>>

\* month is 0-based, year is the calendar year
rtc_month_days(month, year) ==
    rtc_days_in_month[month + 1] + (IF is_leap_year(year) /\ month = 1 THEN 1 ELSE 0)

EINVAL == 22

rtc_valid_tm(tm) ==
    IF \/ tm.tm_year < 70
       \/ tm.tm_mon < 0 \/ tm.tm_mon >= 12
       \/ tm.tm_mday < 1
       \/ tm.tm_mday > rtc_month_days(tm.tm_mon, tm.tm_year + 1900)
       \/ tm.tm_hour < 0 \/ tm.tm_hour >= 24
       \/ tm.tm_min < 0 \/ tm.tm_min >= 60
       \/ tm.tm_sec < 0 \/ tm.tm_sec >= 60
    THEN -EINVAL
    ELSE 0

SecsPerDay == 86400

\* <<days, secs>> brought to 0 <= secs < 86400
NormTime(days, secs) ==
    <<days + (secs \div SecsPerDay), secs % SecsPerDay>>

mktime64(year0, mon0, day, hour, min, sec) ==
    LET mon  == IF mon0 - 2 <= 0 THEN mon0 - 2 + 12 ELSE mon0 - 2
        year == IF mon0 - 2 <= 0 THEN year0 - 1 ELSE year0
        days == (year \div 4) - (year \div 100) + (year \div 400)
                + ((367 * mon) \div 12) + day + year * 365 - 719499
    IN  NormTime(days, hour * 3600 + min * 60 + sec)

rtc_tm_to_time64(tm) ==
    mktime64(tm.tm_year + 1900, tm.tm_mon + 1, tm.tm_mday,
             tm.tm_hour, tm.tm_min, tm.tm_sec)

\* the calendar date of a day number counted from 1970-01-01
rtc_time64_to_tm(time) ==
    LET z    == time[1] + 719468
        era  == z \div 146097
        doe  == z - era * 146097
        yoe  == (doe - (doe \div 1460) + (doe \div 36524) - (doe \div 146096)) \div 365
        doy  == doe - (365 * yoe + (yoe \div 4) - (yoe \div 100))
        mp   == (5 * doy + 2) \div 153
        mday == doy - ((153 * mp + 2) \div 5) + 1
        mon  == IF mp < 10 THEN mp + 3 ELSE mp - 9
        year == yoe + era * 400 + (IF mon <= 2 THEN 1 ELSE 0)
        secs == time[2]
    IN  [tm_year |-> year - 1900, tm_mon |-> mon - 1, tm_mday |-> mday,
         tm_hour |-> secs \div 3600, tm_min |-> (secs % 3600) \div 60,
         tm_sec |-> secs % 60]

-----------------------------------------------------------------------------
(* unsigned long arithmetic on <<days, secs>> *)

\* 2^32 seconds = 49710 days and 23296 seconds
Pow32Days == 49710
Pow32Secs == 23296

TimeLess(a, b) == a[1] < b[1] \/ (a[1] = b[1] /\ a[2] < b[2])

\* a value of at least 0 reduced below 2^32
RECURSIVE Reduce32(_)
Reduce32(t) ==
    IF TimeLess(t, <<Pow32Days, Pow32Secs>>) THEN t
    ELSE Reduce32(NormTime(t[1] - Pow32Days, t[2] - Pow32Secs))

\* t modulo 2^32
Mod32(t) ==
    LET k == t[1] \div (Pow32Days + 1)
    IN  Reduce32(NormTime(t[1] - k * Pow32Days, t[2] - k * Pow32Secs))

\* the conversion of a time64_t to unsigned long.  A 64-bit unsigned long is
\* held as the s64 with the same bits, the value rtc_time64_to_tm receives.
ToUnsignedLong(t, bits) ==
    IF bits = 32 THEN Mod32(t) ELSE t

\* unsigned long time; time + delta
AddUnsignedLong(t, delta, bits) ==
    ToUnsignedLong(NormTime(t[1], t[2] + delta), bits)

-----------------------------------------------------------------------------
(* Alarm time adjustment *)

\* bits is BITS_PER_LONG, the width of unsigned long time
mca_rtc_adjust_alarm_time_noadjust(tm, inc, bits) ==
    rtc_time64_to_tm(ToUnsignedLong(rtc_tm_to_time64(tm), bits))

mca_rtc_adjust_alarm_time(tm, inc, bits) ==
    LET time  == ToUnsignedLong(rtc_tm_to_time64(tm), bits)
        time2 == IF inc THEN AddUnsignedLong(time, 1, bits)
                 ELSE AddUnsignedLong(time, -1, bits)
    IN  rtc_time64_to_tm(time2)

-----------------------------------------------------------------------------
(* Inputs *)

TimeSamples ==
    << MkTm(2024, 3, 1, 12, 0, 0),       \* the minute and the hour roll over
       MkTm(2106, 2, 7, 6, 28, 16),      \* 2^32 seconds
       MkTm(2024, 3, 1, 0, 0, 0),        \* the day and the month roll over (leap)
       MkTm(1970, 1, 1, 0, 0, 0),        \* the lowest timestamp
       MkTm(2024, 1, 1, 0, 0, 0),        \* the year rolls over
       MkTm(65535, 12, 31, 23, 59, 59),  \* the highest 16-bit year
       MkTm(2023, 12, 31, 23, 59, 59),   \* the increment rolls the year over
       MkTm(2024, 3, 1, 12, 0, 30),      \* nothing rolls over
       MkTm(2106, 2, 7, 6, 28, 15),      \* 2^32 - 1 seconds
       MkTm(2100, 3, 1, 0, 0, 0),        \* a century year that is no leap year
       MkTm(2038, 1, 19, 3, 14, 8),      \* 2^31 seconds
       MkTm(2000, 2, 29, 23, 59, 59),
       MkTm(1999, 12, 31, 23, 59, 59) >>

TmInputs == {TimeSamples[i] : i \in 1..MaxSample}

FillBytes == <<0, 255, 165, 90>>

FillSet == {FillBytes[i] : i \in 1..MaxFill}

DataInputs == [1..CLOCK_DATA_LEN -> FillSet]

-----------------------------------------------------------------------------
(* Codec and adjustment harness: the pure functions applied to drawn inputs *)

vars == <<BITS_PER_LONG, pvars, regs, rtc, may_wakeup, suspended, off, wake_moved, call,
          task>>

DriverOff ==
    /\ regs = [control |-> 0, clock |-> ZeroData, alarm |-> ZeroData,
               irq_status |-> 0, periodic_irq_freq |-> 0]
    /\ rtc = [alarm_enabled |-> FALSE, prepare_enabled |-> FALSE]
    /\ may_wakeup = FALSE
    /\ suspended = FALSE
    /\ off = FALSE
    /\ wake_moved = FALSE
    /\ call = [op |-> "none"]
    /\ task = NoTasks

PureFrame ==
    UNCHANGED <<BITS_PER_LONG, regs, rtc, may_wakeup, suspended, off, wake_moved, call, task>>

PureInit ==
    /\ BITS_PER_LONG \in {32, 64}
    /\ p_pc = "start"
    /\ p_tm \in TmInputs
    /\ p_data0 \in DataInputs
    /\ p_data = p_data0
    /\ p_out = NoTm
    /\ DriverOff

\* mca_tm_to_data(tm, data)
PureEncode ==
    /\ p_pc = "start"
    /\ p_data' = mca_tm_to_data(p_tm, p_data0)
    /\ p_pc' = "encoded"
    /\ UNCHANGED <<p_tm, p_data0, p_out>>
    /\ PureFrame

\* mca_data_to_tm(data, tm)
PureDecode ==
    /\ p_pc = "encoded"
    /\ p_out' = mca_data_to_tm(p_data)
    /\ p_pc' = "decoded"
    /\ UNCHANGED <<p_tm, p_data0, p_data>>
    /\ PureFrame

\* mca_rtc_adjust_alarm_time(alrm, false)
PureAdjustDec ==
    /\ p_pc = "start"
    /\ p_data0 = ZeroData
    /\ p_out' = mca_rtc_adjust_alarm_time(p_tm, FALSE, BITS_PER_LONG)
    /\ p_pc' = "decremented"
    /\ UNCHANGED <<p_tm, p_data0, p_data>>
    /\ PureFrame

\* mca_rtc_adjust_alarm_time(alrm, true)
PureAdjustInc ==
    /\ p_pc = "decremented"
    /\ p_out' = mca_rtc_adjust_alarm_time(p_out, TRUE, BITS_PER_LONG)
    /\ p_pc' = "incremented"
    /\ UNCHANGED <<p_tm, p_data0, p_data>>
    /\ PureFrame

PureNext == PureEncode \/ PureDecode \/ PureAdjustDec \/ PureAdjustInc

SpecPure == PureInit /\ [][PureNext]_vars

-----------------------------------------------------------------------------
(* Properties of the codec and of the alarm adjustment *)

\* C1: decoding the 7 bytes that encoding a valid time t into a zeroed
\* buffer produced yields exactly t.
C1_CodecRoundTrip ==
    (p_pc = "decoded" /\ p_data0 = ZeroData) => p_out = p_tm

C1_Witness ==
    /\ p_pc = "decoded"
    /\ p_data0 = ZeroData
    /\ p_tm = MkTm(65535, 12, 31, 23, 59, 59)
    /\ p_data = <<255, 255, 12, 31, 23, 59, 59>>
    /\ p_out = p_tm

\* the bits of a byte outside the mask of its field
Foreign(data, i) == BitAnd(data[i], NotU8(FieldMask[i]))

\* C2: for every byte and every initial buffer, mca_tm_to_data leaves the bits
\* outside the field's mask as they were, and mca_data_to_tm gives the value
\* it gives with those bits cleared.
C2_ForeignBitsPreserved ==
    /\ p_pc \in {"encoded", "decoded"} =>
          \A i \in 1..CLOCK_DATA_LEN : Foreign(p_data, i) = Foreign(p_data0, i)
    /\ p_pc = "decoded" =>
          p_out = mca_data_to_tm([i \in 1..CLOCK_DATA_LEN |->
                                     BitAnd(p_data[i], FieldMask[i])])

C2_Witness ==
    /\ p_pc = "decoded"
    /\ p_tm = MkTm(2024, 3, 1, 12, 0, 0)
    /\ p_data0 = [i \in 1..CLOCK_DATA_LEN |-> 255]
    /\ p_data = <<232, 7, 243, 225, 236, 192, 192>>
    /\ p_out = p_tm

\* C5: decrementing a time by one second and then incrementing the result by
\* one second returns the time.
C5_AdjustRoundTrip ==
    p_pc = "incremented" => p_out = p_tm

-----------------------------------------------------------------------------
(* The register map *)

\* bits of MCA_RTC_CONTROL
MCA_RTC_EN == 1
MCA_RTC_ALARM_EN == 2
MCA_RTC_1HZ_EN == 4
MCA_RTC_PERIODIC_EN == 8
MCA_RTC_IRQ_PIN_EN == 16

\* bit of MCA_IRQ_STATUS_0
MCA_RTC_ALARM == 1

\* enum { MCA_RTC_ACQUIRE_IDLE, MCA_RTC_ACQUIRE_REQUESTED, MCA_RTC_ACQUIRE_READY }
MCA_RTC_ACQUIRE_IDLE == 0
MCA_RTC_ACQUIRE_REQUESTED == 1
MCA_RTC_ACQUIRE_READY == 2

\* the error of a failed register transaction
EIO == 5

HasBit(value, bit) == BitAnd(value, bit) # 0

\* a register transaction of an entry point, as the call record logs it:
\* regmap_read, regmap_bulk_read, regmap_bulk_write
Access(kind, reg, ok) == [kind |-> kind, reg |-> reg, ok |-> ok]

\* regmap_write(map, reg, val)
Write(reg, val, ok) == [kind |-> "write", reg |-> reg, ok |-> ok, val |-> val]

\* regmap_update_bits(map, reg, mask, val)
Update(reg, mask, val, ok) ==
    [kind |-> "update_bits", reg |-> reg, ok |-> ok, mask |-> mask, val |-> val]

\* regmap_update_bits(map, reg, mask, val): the new value of the register
regmap_update_bits(old, mask, val) ==
    BitOr(BitAnd(old, NotU8(mask)), BitAnd(val, mask))

\* the return value of a register transaction
RegRet(ok) == IF ok THEN 0 ELSE -EIO

-----------------------------------------------------------------------------
(* Call records *)

NoCall ==
    [op |-> "none", ret |-> 0, tm |-> NoTm, enabled |-> 0, pending |-> 0,
     log |-> <<>>, notified |-> <<>>]

\* an entry point of struct rtc_class_ops or of dev_pm_ops: its return value,
\* the time, enabled and pending it was given or gave back, and its register
\* transactions in the order it issued them
Called(op, ret, tm, enabled, pending, log) ==
    [op |-> op, ret |-> ret, tm |-> tm, enabled |-> enabled, pending |-> pending,
     log |-> log, notified |-> <<>>]

\* every transaction the call logged succeeded
Succeeded(c) == \A i \in 1..Len(c.log) : c.log[i].ok

\* an interrupt handler: its irqreturn_t and the events it notified
Handled(op, ret, events) ==
    [op |-> op, ret |-> ret, tm |-> NoTm, enabled |-> 0, pending |-> 0,
     log |-> <<>>, notified |-> events]

DrvInputs == {TimeSamples[i] : i \in 1..MaxDrvSample}

-----------------------------------------------------------------------------
(* The driver *)

\* the block the registers hold before anything was written: no valid date
PowerOnData == <<208, 7, 0, 1, 0, 0, 0>>

\* The values the entry points compute from their inputs and from the blocks
\* the registers can hold, tabulated once.

\* mca_rtc_set_time: mca_tm_to_data(tm, data) on the zeroed buffer
SetTimeData == [tm \in DrvInputs |-> mca_tm_to_data(tm, ZeroData)]

ClockBlocks == {PowerOnData} \cup {SetTimeData[tm] : tm \in DrvInputs}

\* mca_rtc_read_time: mca_data_to_tm(data, tm)
ReadTimeTm == [data \in ClockBlocks |-> mca_data_to_tm(data)]

\* mca_rtc_set_alarm: mca_rtc_adjust_alarm_time(alrm, false), then
\* mca_tm_to_data(&alrm->time, data) on the zeroed buffer
SetAlarmData ==
    [bits \in {32, 64} |->
        [tm \in DrvInputs |->
            mca_tm_to_data(mca_rtc_adjust_alarm_time(tm, FALSE, bits), ZeroData)]]

AlarmBlocks ==
    {PowerOnData} \cup {SetAlarmData[bits][tm] : bits \in {32, 64}, tm \in DrvInputs}

\* mca_rtc_read_alarm: mca_data_to_tm(data, &alrm->time), then
\* mca_rtc_adjust_alarm_time(alrm, true)
ReadAlarmTm ==
    [bits \in {32, 64} |->
        [data \in AlarmBlocks |->
            mca_rtc_adjust_alarm_time(mca_data_to_tm(data), TRUE, bits)]]

HarnessOff ==
    /\ p_pc = "off"
    /\ p_tm = NoTm
    /\ p_data0 = ZeroData
    /\ p_data = ZeroData
    /\ p_out = NoTm

\* the periodic interrupt rate the MCA starts with, in ticks of 1/1024 s
PowerOnTicks == 1024

\* the state mca_rtc_probe leaves, the control register holding atAttach
\* before it: the RTC enabled, the device a wake source, alarm_enabled zeroed
\* by devm_kzalloc, prepare_enabled as the firmware tells
Probed(atAttach) ==
    /\ BITS_PER_LONG \in {32, 64}
    /\ HarnessOff
    /\ \E old \in atAttach :
          regs = [control |-> regmap_update_bits(old, MCA_RTC_EN, MCA_RTC_EN),
                  clock |-> PowerOnData,
                  alarm |-> PowerOnData,
                  irq_status |-> 0,
                  periodic_irq_freq |-> PowerOnTicks]
    /\ \E p \in BOOLEAN : rtc = [alarm_enabled |-> FALSE, prepare_enabled |-> p]
    /\ may_wakeup = TRUE
    /\ suspended = FALSE
    /\ off = FALSE
    /\ wake_moved = FALSE
    /\ call = NoCall
    /\ task = NoTasks

\* the alarm interrupt may have been left enabled by the boot before
Init == Probed({0, MCA_RTC_ALARM_EN})

Frame == UNCHANGED <<BITS_PER_LONG, pvars, off, wake_moved, task>>

\* the entry point returns
Return(c) == call' = c

\* the optional prepare write of a read, as logged
\* the prepare write issued whatever rtc->prepare_enabled is
PrepareLog_always(reg, ok) ==
    <<Write(reg, MCA_RTC_ACQUIRE_REQUESTED, ok)>>

PrepareLog(reg, ok) ==
    IF rtc.prepare_enabled THEN <<Write(reg, MCA_RTC_ACQUIRE_REQUESTED, ok)>> ELSE <<>>

\* the outcomes of the prepare write: one when it is not issued
PrepareOutcomes == IF rtc.prepare_enabled THEN BOOLEAN ELSE {TRUE}

\* mca_rtc_read_time, with a failed prepare write returned as the error
mca_rtc_read_time_preparefatal ==
    /\ ~suspended
    /\ LET data == regs.clock
           tm   == ReadTimeTm[data]
           ret  == rtc_valid_tm(tm)
       IN  \E okPrepare \in PrepareOutcomes, okRead \in BOOLEAN :
              LET plog == PrepareLog("MCA_RTC_PREPARE_DATETIME", okPrepare)
                  log  == plog \o <<Access("bulk_read", "MCA_RTC_COUNT_YEAR_L", okRead)>>
              IN  IF ~okPrepare
                  THEN Return(Called("read_time", RegRet(FALSE), NoTm, 0, 0, plog))
                  ELSE IF ~okRead
                       THEN Return(Called("read_time", RegRet(FALSE), NoTm, 0, 0, log))
                       ELSE Return(Called("read_time", ret, tm, 0, 0, log))
    /\ UNCHANGED <<regs, rtc, may_wakeup, suspended>>
    /\ Frame

mca_rtc_read_time ==
    /\ ~suspended
    /\ LET data == regs.clock
           tm   == ReadTimeTm[data]
           ret  == rtc_valid_tm(tm)
       IN  \E okPrepare \in PrepareOutcomes, okRead \in BOOLEAN :
              LET log == PrepareLog("MCA_RTC_PREPARE_DATETIME", okPrepare)
                         \o <<Access("bulk_read", "MCA_RTC_COUNT_YEAR_L", okRead)>>
              IN  IF ~okRead
                  THEN Return(Called("read_time", RegRet(FALSE), NoTm, 0, 0, log))
                  ELSE Return(Called("read_time", ret, tm, 0, 0, log))
    /\ UNCHANGED <<regs, rtc, may_wakeup, suspended>>
    /\ Frame

mca_rtc_set_time_nowrite(tm) ==
    /\ ~suspended
    /\ \E okWrite \in BOOLEAN :
          Return(Called("set_time", RegRet(okWrite), tm, 0, 0,
                        <<Access("bulk_write", "MCA_RTC_COUNT_YEAR_L", okWrite)>>))
    /\ UNCHANGED <<regs, rtc, may_wakeup, suspended>>
    /\ Frame

mca_rtc_set_time(tm) ==
    /\ ~suspended
    /\ LET data == SetTimeData[tm]
       IN  \E okWrite \in BOOLEAN :
              /\ regs' = IF okWrite THEN [regs EXCEPT !.clock = data] ELSE regs
              /\ Return(Called("set_time", RegRet(okWrite), tm, 0, 0,
                               <<Access("bulk_write", "MCA_RTC_COUNT_YEAR_L", okWrite)>>))
    /\ UNCHANGED <<rtc, may_wakeup, suspended>>
    /\ Frame

\* what mca_rtc_read_alarm returns, by the first transaction that fails
ReadAlarmOutcomes == {"bulk_read", "control", "status", "ok"}

mca_rtc_read_alarm ==
    /\ ~suspended
    /\ LET data    == regs.alarm
           tm      == ReadAlarmTm[BITS_PER_LONG][data]
           pending == IF HasBit(regs.irq_status, MCA_RTC_ALARM) THEN 1 ELSE 0
       IN  \E okPrepare \in PrepareOutcomes, out \in ReadAlarmOutcomes,
              enabledIn \in {0, 1} :
              LET log1 == PrepareLog("MCA_RTC_PREPARE_ALARM", okPrepare)
                          \o <<Access("bulk_read", "MCA_RTC_ALARM_YEAR_L",
                                      out # "bulk_read")>>
                  log2 == log1 \o <<Access("read", "MCA_RTC_CONTROL", out # "control")>>
                  log3 == log2 \o <<Access("read", "MCA_IRQ_STATUS_0", out # "status")>>
              IN  CASE out = "bulk_read" ->
                         Return(Called("read_alarm", RegRet(FALSE), NoTm, enabledIn, 0, log1))
                    [] out = "control" ->
                         Return(Called("read_alarm", RegRet(FALSE), tm, enabledIn, 0, log2))
                    [] out = "status" ->
                         Return(Called("read_alarm", RegRet(FALSE), tm, enabledIn, 0, log3))
                    [] out = "ok" ->
                         Return(Called("read_alarm", 0, tm, enabledIn, pending, log3))
    /\ UNCHANGED <<regs, rtc, may_wakeup, suspended>>
    /\ Frame

\* mca_rtc_start_alarm / mca_rtc_stop_alarm: the control register afterwards
mca_rtc_start_alarm(control) ==
    regmap_update_bits(control, MCA_RTC_ALARM_EN, MCA_RTC_ALARM_EN)

mca_rtc_stop_alarm(control) ==
    regmap_update_bits(control, MCA_RTC_ALARM_EN, 0)

\* the outcome of mca_rtc_alarm_irq_enable(dev, enabled) on registers r, when
\* its register update succeeds (ok) or fails
AlarmIrqEnable_flagalways(r, enabled, ok) ==
    [regs |-> IF ~ok THEN r
              ELSE [r EXCEPT !.control = IF enabled # 0
                                         THEN mca_rtc_start_alarm(r.control)
                                         ELSE mca_rtc_stop_alarm(r.control)],
     alarm_enabled |-> (enabled # 0),
     ret |-> RegRet(ok),
     log |-> <<Update("MCA_RTC_CONTROL", MCA_RTC_ALARM_EN,
                      IF enabled # 0 THEN MCA_RTC_ALARM_EN ELSE 0, ok)>>]

AlarmIrqEnable(r, enabled, ok) ==
    [regs |-> IF ~ok THEN r
              ELSE [r EXCEPT !.control = IF enabled # 0
                                         THEN mca_rtc_start_alarm(r.control)
                                         ELSE mca_rtc_stop_alarm(r.control)],
     alarm_enabled |-> IF ok THEN (enabled # 0) ELSE rtc.alarm_enabled,
     ret |-> RegRet(ok),
     log |-> <<Update("MCA_RTC_CONTROL", MCA_RTC_ALARM_EN,
                      IF enabled # 0 THEN MCA_RTC_ALARM_EN ELSE 0, ok)>>]

mca_rtc_alarm_irq_enable(enabled) ==
    /\ ~suspended
    /\ \E ok \in BOOLEAN :
          LET e == AlarmIrqEnable(regs, enabled, ok)
          IN  /\ regs' = e.regs
              /\ rtc' = [rtc EXCEPT !.alarm_enabled = e.alarm_enabled]
              /\ Return(Called("alarm_irq_enable", e.ret, NoTm, enabled, 0, e.log))
    /\ UNCHANGED <<may_wakeup, suspended>>
    /\ Frame

\* what mca_rtc_set_alarm returns, by the first transaction that fails
SetAlarmOutcomes == {"bulk_write", "enable", "ok"}

mca_rtc_set_alarm_enablefirst(tm, enabled) ==
    /\ ~suspended
    /\ LET data == SetAlarmData[BITS_PER_LONG][tm]
       IN  \E out \in SetAlarmOutcomes :
              LET e    == AlarmIrqEnable(regs, enabled, out # "enable")
                  wlog == <<Access("bulk_write", "MCA_RTC_ALARM_YEAR_L",
                                   out # "bulk_write")>>
              IN  IF out = "enable"
                  THEN /\ UNCHANGED <<regs, rtc>>
                       /\ Return(Called("set_alarm", e.ret, tm, enabled, 0, e.log))
                  ELSE /\ regs' = IF out = "ok" THEN [e.regs EXCEPT !.alarm = data]
                                  ELSE e.regs
                       /\ rtc' = [rtc EXCEPT !.alarm_enabled = e.alarm_enabled]
                       /\ Return(Called("set_alarm", RegRet(out = "ok"), tm, enabled, 0,
                                        e.log \o wlog))
    /\ UNCHANGED <<may_wakeup, suspended>>
    /\ Frame

mca_rtc_set_alarm(tm, enabled) ==
    /\ ~suspended
    /\ LET data == SetAlarmData[BITS_PER_LONG][tm]
       IN  \E out \in SetAlarmOutcomes :
              LET wlog == <<Access("bulk_write", "MCA_RTC_ALARM_YEAR_L",
                                   out # "bulk_write")>>
                  e    == AlarmIrqEnable([regs EXCEPT !.alarm = data], enabled,
                                         out # "enable")
              IN  IF out = "bulk_write"
                  THEN /\ UNCHANGED <<regs, rtc>>
                       /\ Return(Called("set_alarm", RegRet(FALSE), tm, enabled, 0, wlog))
                  ELSE /\ regs' = e.regs
                       /\ rtc' = [rtc EXCEPT !.alarm_enabled = e.alarm_enabled]
                       /\ Return(Called("set_alarm", e.ret, tm, enabled, 0,
                                        wlog \o e.log))
    /\ UNCHANGED <<may_wakeup, suspended>>
    /\ Frame

-----------------------------------------------------------------------------
(* Interrupts *)

IRQ_NONE == 0
IRQ_HANDLED == 1

\* a call of rtc_update_irq / rtc_handle_legacy_irq(rtc->rtc_dev, num, events);
\* delivered tells whether the RTC core passed it on
Notify(events, delivered) ==
    [num |-> 1, events |-> events, delivered |-> delivered]

\* the alarm time is reached with the alarm enabled: the MCA latches the
\* alarm interrupt in MCA_IRQ_STATUS_0
HwAlarmMatch ==
    /\ ~off
    /\ HasBit(regs.control, MCA_RTC_ALARM_EN)
    /\ ~HasBit(regs.irq_status, MCA_RTC_ALARM)
    /\ regs' = [regs EXCEPT !.irq_status = BitOr(@, MCA_RTC_ALARM)]
    /\ UNCHANGED <<rtc, may_wakeup, suspended, call>>
    /\ Frame

mca_alarm_event_unhandled ==
    /\ ~off
    /\ HasBit(regs.irq_status, MCA_RTC_ALARM)
    /\ \E delivered \in BOOLEAN :
          Return(Handled("mca_alarm_event",
                         IF delivered THEN IRQ_HANDLED ELSE IRQ_NONE,
                         <<Notify({"RTC_IRQF", "RTC_AF"}, delivered)>>))
    /\ regs' = [regs EXCEPT !.irq_status = BitAnd(@, NotU8(MCA_RTC_ALARM))]
    /\ UNCHANGED <<rtc, may_wakeup, suspended>>
    /\ Frame

\* mca_alarm_event, disarming the alarm that fired
mca_alarm_event_disarm ==
    /\ ~off
    /\ HasBit(regs.irq_status, MCA_RTC_ALARM)
    /\ \E delivered \in BOOLEAN :
          Return(Handled("mca_alarm_event", IRQ_HANDLED,
                         <<Notify({"RTC_IRQF", "RTC_AF"}, delivered)>>))
    /\ regs' = [regs EXCEPT !.irq_status = BitAnd(@, NotU8(MCA_RTC_ALARM))]
    /\ rtc' = [rtc EXCEPT !.alarm_enabled = FALSE]
    /\ UNCHANGED <<may_wakeup, suspended>>
    /\ Frame

\* the interrupt chip of the MCA core acknowledges the latched status, then
\* runs the handler
mca_alarm_event ==
    /\ ~off
    /\ HasBit(regs.irq_status, MCA_RTC_ALARM)
    /\ \E delivered \in BOOLEAN :
          Return(Handled("mca_alarm_event", IRQ_HANDLED,
                         <<Notify({"RTC_IRQF", "RTC_AF"}, delivered)>>))
    /\ regs' = [regs EXCEPT !.irq_status = BitAnd(@, NotU8(MCA_RTC_ALARM))]
    /\ UNCHANGED <<rtc, may_wakeup, suspended>>
    /\ Frame

mca_1HZ_event ==
    /\ ~off
    /\ HasBit(regs.control, MCA_RTC_1HZ_EN)
    /\ \E delivered \in BOOLEAN :
          Return(Handled("mca_1HZ_event", IRQ_HANDLED,
                         <<Notify({"RTC_UF"}, delivered)>>))
    /\ UNCHANGED <<regs, rtc, may_wakeup, suspended>>
    /\ Frame

mca_periodic_irq_event ==
    /\ ~off
    /\ HasBit(regs.control, MCA_RTC_PERIODIC_EN)
    /\ \E delivered \in BOOLEAN :
          Return(Handled("mca_periodic_irq_event", IRQ_HANDLED,
                         <<Notify({"RTC_PF"}, delivered)>>))
    /\ UNCHANGED <<regs, rtc, may_wakeup, suspended>>
    /\ Frame

-----------------------------------------------------------------------------
(* Power transitions *)

\* device_set_wakeup_enable(&pdev->dev, enable)
SetWakeup(enable) ==
    /\ ~suspended
    /\ may_wakeup # enable
    /\ may_wakeup' = enable
    /\ Return(Called("set_wakeup", 0, NoTm, IF enable THEN 1 ELSE 0, 0, <<>>))
    /\ UNCHANGED <<regs, rtc, suspended>>
    /\ Frame

\* device_set_wakeup_enable by kernel code while the system is suspended
SetWakeupAsleep(enable) ==
    /\ suspended /\ ~off
    /\ may_wakeup # enable
    /\ may_wakeup' = enable
    /\ wake_moved' = TRUE
    /\ Return(Called("set_wakeup", 0, NoTm, IF enable THEN 1 ELSE 0, 0, <<>>))
    /\ UNCHANGED <<regs, rtc, suspended>>
    /\ UNCHANGED <<BITS_PER_LONG, pvars, off, task>>

\* the outcomes of the register update of a power hook: one when not issued
PowerOutcomes == IF ~may_wakeup /\ rtc.alarm_enabled THEN BOOLEAN ELSE {TRUE}

mca_rtc_suspend_disarm ==
    /\ ~suspended
    /\ \E ok \in PowerOutcomes :
          IF ~may_wakeup /\ rtc.alarm_enabled
          THEN /\ regs' = IF ok THEN [regs EXCEPT !.control = mca_rtc_stop_alarm(@)]
                          ELSE regs
               /\ rtc' = [rtc EXCEPT !.alarm_enabled = FALSE]
               /\ Return(Called("suspend", 0, NoTm, 0, 0,
                                <<Update("MCA_RTC_CONTROL", MCA_RTC_ALARM_EN, 0, ok)>>))
          ELSE /\ UNCHANGED <<regs, rtc>>
               /\ Return(Called("suspend", 0, NoTm, 0, 0, <<>>))
    /\ suspended' = TRUE
    /\ UNCHANGED may_wakeup
    /\ Frame

mca_rtc_suspend ==
    /\ ~suspended
    /\ \E ok \in PowerOutcomes :
          IF ~may_wakeup /\ rtc.alarm_enabled
          THEN /\ regs' = IF ok THEN [regs EXCEPT !.control = mca_rtc_stop_alarm(@)]
                          ELSE regs
               /\ Return(Called("suspend", 0, NoTm, 0, 0,
                                <<Update("MCA_RTC_CONTROL", MCA_RTC_ALARM_EN, 0, ok)>>))
          ELSE /\ UNCHANGED regs
               /\ Return(Called("suspend", 0, NoTm, 0, 0, <<>>))
    /\ suspended' = TRUE
    /\ UNCHANGED <<rtc, may_wakeup>>
    /\ Frame

\* mca_rtc_resume that restores nothing
mca_rtc_resume_norestore ==
    /\ suspended
    /\ ~off
    /\ Return(Called("resume", 0, NoTm, 0, 0, <<>>))
    /\ suspended' = FALSE
    /\ UNCHANGED <<regs, rtc, may_wakeup>>
    /\ Frame

\* mca_rtc_resume, with a failed register update escalated
mca_rtc_resume_escalate ==
    /\ suspended
    /\ ~off
    /\ \E ok \in PowerOutcomes :
          IF ~may_wakeup /\ rtc.alarm_enabled
          THEN /\ regs' = IF ok THEN [regs EXCEPT !.control = mca_rtc_start_alarm(@)]
                          ELSE regs
               /\ Return(Called("resume", RegRet(ok), NoTm, 0, 0,
                                <<Update("MCA_RTC_CONTROL", MCA_RTC_ALARM_EN,
                                         MCA_RTC_ALARM_EN, ok)>>))
          ELSE /\ UNCHANGED regs
               /\ Return(Called("resume", 0, NoTm, 0, 0, <<>>))
    /\ suspended' = FALSE
    /\ UNCHANGED <<rtc, may_wakeup>>
    /\ Frame

mca_rtc_resume ==
    /\ suspended
    /\ ~off
    /\ \E ok \in PowerOutcomes :
          IF ~may_wakeup /\ rtc.alarm_enabled
          THEN /\ regs' = IF ok THEN [regs EXCEPT !.control = mca_rtc_start_alarm(@)]
                          ELSE regs
               /\ Return(Called("resume", 0, NoTm, 0, 0,
                                <<Update("MCA_RTC_CONTROL", MCA_RTC_ALARM_EN,
                                         MCA_RTC_ALARM_EN, ok)>>))
          ELSE /\ UNCHANGED regs
               /\ Return(Called("resume", 0, NoTm, 0, 0, <<>>))
    /\ suspended' = FALSE
    /\ UNCHANGED <<rtc, may_wakeup>>
    /\ Frame

\* .poweroff = mca_rtc_suspend: the same hook, after which the system is off
\* and no entry point runs any more
mca_rtc_poweroff ==
    /\ ~suspended
    /\ \E ok \in PowerOutcomes :
          IF ~may_wakeup /\ rtc.alarm_enabled
          THEN /\ regs' = IF ok THEN [regs EXCEPT !.control = mca_rtc_stop_alarm(@)]
                          ELSE regs
               /\ Return(Called("poweroff", 0, NoTm, 0, 0,
                                <<Update("MCA_RTC_CONTROL", MCA_RTC_ALARM_EN, 0, ok)>>))
          ELSE /\ UNCHANGED regs
               /\ Return(Called("poweroff", 0, NoTm, 0, 0, <<>>))
    /\ suspended' = TRUE
    /\ off' = TRUE
    /\ UNCHANGED <<rtc, may_wakeup>>
    /\ UNCHANGED <<BITS_PER_LONG, pvars, wake_moved, task>>

-----------------------------------------------------------------------------
(* The legacy ioctl *)

EFAULT == 14
ENOIOCTLCMD == 515

\* how many entries of HzSamples RTC_MCA_IRQP_SET is called with
MaxHzSample == 3

HzSamples == <<0, 64, 2048, 1024, 1, 3>>

HzInputs == {HzSamples[i] : i \in 1..MaxHzSample}

\* the six commands of the driver, and one of the RTC core it does not handle
IoctlCmds ==
    {"RTC_MCA_UIE_ON", "RTC_MCA_UIE_OFF", "RTC_MCA_PIE_ON", "RTC_MCA_PIE_OFF",
     "RTC_MCA_IRQP_READ", "RTC_MCA_IRQP_SET", "RTC_WKALM_SET"}

\* a call of mca_rtc_ioctl: value is what put_user stored; fault tells that
\* the call trapped and never returned
Ioctl(cmd, arg, ret, value, fault, log) ==
    [op |-> "ioctl", cmd |-> cmd, arg |-> arg, ret |-> ret, value |-> value,
     fault |-> fault, tm |-> NoTm, enabled |-> 0, pending |-> 0, log |-> log,
     notified |-> <<>>]

\* 1024 / d.  A division by zero is undefined: the builds trap (x86) or go on
\* with a quotient of 0 (arm64, ARMv7 udiv).
Div1024(d) ==
    IF d = 0 THEN {[fault |-> TRUE, q |-> 0], [fault |-> FALSE, q |-> 0]}
    ELSE {[fault |-> FALSE, q |-> 1024 \div d]}

\* store into an unsigned short
U16(x) == x % 65536

\* mca_rtc_ioctl, with UIE_ON / UIE_OFF writing the whole control register
mca_rtc_ioctl_wholecontrol(cmd, arg) ==
    /\ ~suspended
    /\ CASE cmd \in {"RTC_MCA_UIE_ON", "RTC_MCA_UIE_OFF"} ->
              \E ok \in BOOLEAN :
                 LET val == IF cmd = "RTC_MCA_UIE_ON" THEN MCA_RTC_1HZ_EN ELSE 0
                     log == <<Update("MCA_RTC_CONTROL", MCA_RTC_1HZ_EN, val, ok)>>
                 IN  /\ regs' = IF ok
                                THEN [regs EXCEPT !.control =
                                         regmap_update_bits(@, 255, val)]
                                ELSE regs
                     /\ Return(Ioctl(cmd, arg, IF ok THEN 0 ELSE -EFAULT, 0, FALSE, log))
         [] cmd \in {"RTC_MCA_PIE_ON", "RTC_MCA_PIE_OFF"} ->
              \E ok \in BOOLEAN :
                 LET val == IF cmd = "RTC_MCA_PIE_ON" THEN MCA_RTC_PERIODIC_EN ELSE 0
                     log == <<Update("MCA_RTC_CONTROL", MCA_RTC_PERIODIC_EN, val, ok)>>
                 IN  /\ regs' = IF ok
                                THEN [regs EXCEPT !.control =
                                         regmap_update_bits(@, MCA_RTC_PERIODIC_EN, val)]
                                ELSE regs
                     /\ Return(Ioctl(cmd, arg, IF ok THEN 0 ELSE -EFAULT, 0, FALSE, log))
         [] cmd = "RTC_MCA_IRQP_READ" ->
              \E ok \in BOOLEAN :
                 LET value_short == regs.periodic_irq_freq
                     log == <<Access("bulk_read", "MCA_RTC_PERIODIC_IRQ_FREQ", ok)>>
                 IN  /\ UNCHANGED regs
                     /\ IF ~ok
                        THEN Return(Ioctl(cmd, arg, -EFAULT, 0, FALSE, log))
                        ELSE \E d \in Div1024(value_short) :
                                Return(Ioctl(cmd, arg, 0, d.q, d.fault, log))
         [] cmd = "RTC_MCA_IRQP_SET" ->
              \E d \in Div1024(arg) :
                 IF d.fault
                 THEN /\ UNCHANGED regs
                      /\ Return(Ioctl(cmd, arg, 0, 0, TRUE, <<>>))
                 ELSE \E ok \in BOOLEAN :
                         LET value_short == U16(d.q)
                             log == <<Access("bulk_write", "MCA_RTC_PERIODIC_IRQ_FREQ", ok)>>
                         IN  /\ regs' = IF ok
                                        THEN [regs EXCEPT !.periodic_irq_freq = value_short]
                                        ELSE regs
                             /\ Return(Ioctl(cmd, arg, IF ok THEN 0 ELSE -EFAULT, 0,
                                             FALSE, log))
         [] OTHER ->
              /\ UNCHANGED regs
              /\ Return(Ioctl(cmd, arg, -ENOIOCTLCMD, 0, FALSE, <<>>))
    /\ UNCHANGED <<rtc, may_wakeup, suspended>>
    /\ Frame


mca_rtc_ioctl(cmd, arg) ==
    /\ ~suspended
    /\ CASE cmd \in {"RTC_MCA_UIE_ON", "RTC_MCA_UIE_OFF"} ->
              \E ok \in BOOLEAN :
                 LET val == IF cmd = "RTC_MCA_UIE_ON" THEN MCA_RTC_1HZ_EN ELSE 0
                     log == <<Update("MCA_RTC_CONTROL", MCA_RTC_1HZ_EN, val, ok)>>
                 IN  /\ regs' = IF ok
                                THEN [regs EXCEPT !.control =
                                         regmap_update_bits(@, MCA_RTC_1HZ_EN, val)]
                                ELSE regs
                     /\ Return(Ioctl(cmd, arg, IF ok THEN 0 ELSE -EFAULT, 0, FALSE, log))
         [] cmd \in {"RTC_MCA_PIE_ON", "RTC_MCA_PIE_OFF"} ->
              \E ok \in BOOLEAN :
                 LET val == IF cmd = "RTC_MCA_PIE_ON" THEN MCA_RTC_PERIODIC_EN ELSE 0
                     log == <<Update("MCA_RTC_CONTROL", MCA_RTC_PERIODIC_EN, val, ok)>>
                 IN  /\ regs' = IF ok
                                THEN [regs EXCEPT !.control =
                                         regmap_update_bits(@, MCA_RTC_PERIODIC_EN, val)]
                                ELSE regs
                     /\ Return(Ioctl(cmd, arg, IF ok THEN 0 ELSE -EFAULT, 0, FALSE, log))
         [] cmd = "RTC_MCA_IRQP_READ" ->
              \E ok \in BOOLEAN :
                 LET value_short == regs.periodic_irq_freq
                     log == <<Access("bulk_read", "MCA_RTC_PERIODIC_IRQ_FREQ", ok)>>
                 IN  /\ UNCHANGED regs
                     /\ IF ~ok
                        THEN Return(Ioctl(cmd, arg, -EFAULT, 0, FALSE, log))
                        ELSE \E d \in Div1024(value_short) :
                                Return(Ioctl(cmd, arg, 0, d.q, d.fault, log))
         [] cmd = "RTC_MCA_IRQP_SET" ->
              \E d \in Div1024(arg) :
                 IF d.fault
                 THEN /\ UNCHANGED regs
                      /\ Return(Ioctl(cmd, arg, 0, 0, TRUE, <<>>))
                 ELSE \E ok \in BOOLEAN :
                         LET value_short == U16(d.q)
                             log == <<Access("bulk_write", "MCA_RTC_PERIODIC_IRQ_FREQ", ok)>>
                         IN  /\ regs' = IF ok
                                        THEN [regs EXCEPT !.periodic_irq_freq = value_short]
                                        ELSE regs
                             /\ Return(Ioctl(cmd, arg, IF ok THEN 0 ELSE -EFAULT, 0,
                                             FALSE, log))
         [] OTHER ->
              /\ UNCHANGED regs
              /\ Return(Ioctl(cmd, arg, -ENOIOCTLCMD, 0, FALSE, <<>>))
    /\ UNCHANGED <<rtc, may_wakeup, suspended>>
    /\ Frame

-----------------------------------------------------------------------------
(* The interrupt side of the driver: the enables and the three handlers *)

\* the control register may hold anything when the driver attaches
InitIrq == Probed(0..31)

NextIrq ==
    \/ \E cmd \in IoctlCmds, arg \in HzInputs : mca_rtc_ioctl(cmd, arg)
    \/ \E enabled \in {0, 1} : mca_rtc_alarm_irq_enable(enabled)
    \/ HwAlarmMatch
    \/ mca_alarm_event
    \/ mca_1HZ_event
    \/ mca_periodic_irq_event

SpecIrq == InitIrq /\ [][NextIrq]_vars

-----------------------------------------------------------------------------
(* Callers inside the driver at once: every register transaction is one step,
   serialised by the regmap lock; the driver takes no lock of its own *)

\* how many entries of TimeSamples the concurrent callers pass
MaxConcSample == 1

ConcInputs == {TimeSamples[i] : i \in 1..MaxConcSample}

ConcFrame == UNCHANGED <<BITS_PER_LONG, pvars, may_wakeup, suspended, off, wake_moved>>

\* the alarm interrupt is disabled when the driver attaches
InitConc == Probed({0})

\* task i enters mca_rtc_set_alarm and builds data[] from alrm->time
SetAlarmEnter(i, tm, enabled) ==
    /\ task[i].pc = "idle"
    /\ task' = [task EXCEPT ![i] = [op |-> "set_alarm", pc |-> "bulk_write",
                                    tm |-> tm, enabled |-> enabled]]
    /\ UNCHANGED <<regs, rtc, call>>
    /\ ConcFrame

\* regmap_bulk_write(MCA_RTC_ALARM_YEAR_L, data); on failure the call returns,
\* else it goes on into mca_rtc_alarm_irq_enable(dev, alrm->enabled)
SetAlarmBulkWrite(i) ==
    /\ task[i].pc = "bulk_write"
    /\ \E ok \in BOOLEAN :
          LET wlog == <<Access("bulk_write", "MCA_RTC_ALARM_YEAR_L", ok)>>
          IN  IF ok
              THEN /\ regs' = [regs EXCEPT !.alarm =
                                  SetAlarmData[BITS_PER_LONG][task[i].tm]]
                   /\ task' = [task EXCEPT ![i].pc = "update_bits"]
                   /\ UNCHANGED call
              ELSE /\ UNCHANGED regs
                   /\ task' = [task EXCEPT ![i] = Idle]
                   /\ Return(Called("set_alarm", RegRet(FALSE), task[i].tm,
                                    task[i].enabled, 0, wlog))
    /\ UNCHANGED rtc
    /\ ConcFrame

\* task i enters mca_rtc_alarm_irq_enable
AlarmIrqEnableEnter(i, enabled) ==
    /\ task[i].pc = "idle"
    /\ task' = [task EXCEPT ![i] = [op |-> "alarm_irq_enable", pc |-> "update_bits",
                                    tm |-> <<>>, enabled |-> enabled]]
    /\ UNCHANGED <<regs, rtc, call>>
    /\ ConcFrame

\* mca_rtc_start_alarm / mca_rtc_stop_alarm; on failure the call returns
AlarmIrqEnableUpdateBits(i) ==
    /\ task[i].pc = "update_bits"
    /\ \E ok \in BOOLEAN :
          LET e == AlarmIrqEnable(regs, task[i].enabled, ok)
          IN  IF ok
              THEN /\ regs' = e.regs
                   /\ task' = [task EXCEPT ![i].pc = "set_flag"]
                   /\ UNCHANGED call
              ELSE /\ UNCHANGED regs
                   /\ task' = [task EXCEPT ![i] = Idle]
                   /\ Return(Called(task[i].op, e.ret, task[i].tm,
                                    task[i].enabled, 0, e.log))
    /\ UNCHANGED rtc
    /\ ConcFrame

\* rtc->alarm_enabled = 1 or 0, and the call returns 0
AlarmIrqEnableSetFlag(i) ==
    /\ task[i].pc = "set_flag"
    /\ rtc' = [rtc EXCEPT !.alarm_enabled = (task[i].enabled # 0)]
    /\ task' = [task EXCEPT ![i] = Idle]
    /\ Return(Called(task[i].op, 0, task[i].tm, task[i].enabled, 0, <<>>))
    /\ UNCHANGED regs
    /\ ConcFrame

NextConc ==
    \/ \E i \in Tasks, tm \in ConcInputs, enabled \in {0, 1} :
          SetAlarmEnter(i, tm, enabled)
    \/ \E i \in Tasks : SetAlarmBulkWrite(i)
    \/ \E i \in Tasks, enabled \in {0, 1} : AlarmIrqEnableEnter(i, enabled)
    \/ \E i \in Tasks : AlarmIrqEnableUpdateBits(i)
    \/ \E i \in Tasks : AlarmIrqEnableSetFlag(i)
    \/ HwAlarmMatch
    \/ mca_alarm_event

SpecConc == InitConc /\ [][NextConc]_vars

-----------------------------------------------------------------------------
(* The driver called sequentially: every entry point runs to its return *)

Next ==
    \/ mca_rtc_read_time
    \/ \E tm \in DrvInputs : mca_rtc_set_time(tm)
    \/ mca_rtc_read_alarm
    \/ \E tm \in DrvInputs, enabled \in {0, 1} : mca_rtc_set_alarm(tm, enabled)
    \/ \E enabled \in {0, 1} : mca_rtc_alarm_irq_enable(enabled)
    \/ HwAlarmMatch
    \/ mca_alarm_event
    \/ \E enable \in BOOLEAN : SetWakeup(enable)
    \/ mca_rtc_suspend
    \/ mca_rtc_resume
    \/ mca_rtc_poweroff

Spec == Init /\ [][Next]_vars

-----------------------------------------------------------------------------
(* mca_rtc_alarm_irq_enable and mca_rtc_resume under way at once, on a
   transport that never fails *)

RaceFrame == UNCHANGED <<BITS_PER_LONG, pvars, may_wakeup, off, wake_moved>>

\* task i enters mca_rtc_resume
ResumeEnter(i) ==
    /\ suspended
    /\ task[i].pc = "idle"
    /\ task' = [task EXCEPT ![i] = [op |-> "resume", pc |-> "resume_check",
                                    tm |-> <<>>, enabled |-> 0]]
    /\ UNCHANGED <<regs, rtc, suspended, call>>
    /\ RaceFrame

\* if (!device_may_wakeup(&pdev->dev) && rtc->alarm_enabled): when false the
\* hook returns 0
ResumeCheck(i) ==
    /\ task[i].pc = "resume_check"
    /\ IF ~may_wakeup /\ rtc.alarm_enabled
       THEN /\ task' = [task EXCEPT ![i].pc = "resume_update"]
            /\ UNCHANGED <<suspended, call>>
       ELSE /\ task' = [task EXCEPT ![i] = Idle]
            /\ suspended' = FALSE
            /\ Return(Called("resume", 0, NoTm, 0, 0, <<>>))
    /\ UNCHANGED <<regs, rtc>>
    /\ RaceFrame

\* mca_rtc_start_alarm, its failure only logged, and return 0
ResumeUpdate(i) ==
    /\ task[i].pc = "resume_update"
    /\ \E ok \in BOOLEAN :
          /\ regs' = IF ok THEN [regs EXCEPT !.control = mca_rtc_start_alarm(@)]
                     ELSE regs
          /\ Return(Called("resume", 0, NoTm, 0, 0,
                           <<Update("MCA_RTC_CONTROL", MCA_RTC_ALARM_EN,
                                    MCA_RTC_ALARM_EN, ok)>>))
    /\ task' = [task EXCEPT ![i] = Idle]
    /\ suspended' = FALSE
    /\ UNCHANGED rtc
    /\ RaceFrame

\* the steps with their register update successful
RaceUpdateBits(i) == AlarmIrqEnableUpdateBits(i) /\ task'[i].pc = "set_flag"

RaceResumeUpdate(i) == ResumeUpdate(i) /\ Succeeded(call')

\* mca_rtc_suspend, run with no call under way
RaceSuspend == task = NoTasks /\ mca_rtc_suspend /\ Succeeded(call')

\* the alarm interrupt is disabled when the driver attaches
InitRace == Probed({0})

NextRace ==
    \/ \E i \in Tasks, enabled \in {0, 1} : AlarmIrqEnableEnter(i, enabled)
    \/ \E i \in Tasks : RaceUpdateBits(i)
    \/ \E i \in Tasks : AlarmIrqEnableSetFlag(i)
    \/ \E i \in Tasks : ResumeEnter(i)
    \/ \E i \in Tasks : ResumeCheck(i)
    \/ \E i \in Tasks : RaceResumeUpdate(i)
    \/ RaceSuspend
    \/ \E enable \in BOOLEAN : SetWakeup(enable)

SpecRace == InitRace /\ [][NextRace]_vars

-----------------------------------------------------------------------------
(* Every entry point, handler and power hook of the driver, called
   sequentially with the smallest inputs *)

\* how many entries of TimeSamples and of HzSamples the calls pass
MaxAllSample == 1
MaxAllHz == 1

AllInputs == {TimeSamples[i] : i \in 1..MaxAllSample}

AllHzInputs == {HzSamples[i] : i \in 1..MaxAllHz}

\* the 64-bit build: the width of unsigned long matters to
\* mca_rtc_adjust_alarm_time alone, which Spec runs at both widths
InitAll == Probed({0}) /\ BITS_PER_LONG = 64

NextAll ==
    \/ mca_rtc_read_time
    \/ \E tm \in AllInputs : mca_rtc_set_time(tm)
    \/ mca_rtc_read_alarm
    \/ \E tm \in AllInputs, enabled \in {0, 1} : mca_rtc_set_alarm(tm, enabled)
    \/ \E enabled \in {0, 1} : mca_rtc_alarm_irq_enable(enabled)
    \/ \E cmd \in IoctlCmds, arg \in AllHzInputs : mca_rtc_ioctl(cmd, arg)
    \/ HwAlarmMatch
    \/ mca_alarm_event
    \/ mca_1HZ_event
    \/ mca_periodic_irq_event
    \/ \E enable \in BOOLEAN : SetWakeup(enable)
    \/ mca_rtc_suspend
    \/ mca_rtc_resume
    \/ mca_rtc_poweroff

SpecAll == InitAll /\ [][NextAll]_vars

-----------------------------------------------------------------------------
(* The alarm calls and the power hooks, called sequentially with a transport
   that never fails, the wake setting changing at any time *)

\* the alarm interrupt is disabled when the driver attaches
InitPm == Probed({0})

PmSetAlarm(tm, enabled) == mca_rtc_set_alarm(tm, enabled) /\ Succeeded(call')

PmAlarmIrqEnable(enabled) == mca_rtc_alarm_irq_enable(enabled) /\ Succeeded(call')

PmSuspend == mca_rtc_suspend /\ Succeeded(call')

PmResume == mca_rtc_resume /\ Succeeded(call')

NextPm ==
    \/ \E tm \in AllInputs, enabled \in {0, 1} : PmSetAlarm(tm, enabled)
    \/ \E enabled \in {0, 1} : PmAlarmIrqEnable(enabled)
    \/ PmSuspend
    \/ PmResume
    \/ \E enable \in BOOLEAN : SetWakeup(enable)
    \/ \E enable \in BOOLEAN : SetWakeupAsleep(enable)

SpecPm == InitPm /\ [][NextPm]_vars

-----------------------------------------------------------------------------
(* Properties of the driver called sequentially *)

\* every transaction the call logged succeeded
AllOk(c) == \A i \in 1..Len(c.log) : c.log[i].ok

\* C3: after set_time(t) returned 0, a read_time that follows it and whose
\* bulk read succeeds returns 0 and exactly t, with the prepare write not
\* issued, issued and failed, or issued and successful.
C3_SetTimeThenReadTime ==
    [][(/\ call.op = "set_time" /\ call.ret = 0
        /\ call'.op = "read_time"
        /\ call'.log[Len(call'.log)].ok)
       => (call'.ret = 0 /\ call'.tm = call.tm)]_vars

C3_Witness ==
    /\ call.op = "read_time"
    /\ rtc.prepare_enabled
    /\ call.log = <<Write("MCA_RTC_PREPARE_DATETIME", MCA_RTC_ACQUIRE_REQUESTED, FALSE),
                    Access("bulk_read", "MCA_RTC_COUNT_YEAR_L", TRUE)>>
    /\ regs.clock = <<232, 7, 3, 1, 12, 0, 0>>
    /\ call.ret = 0
    /\ call.tm = MkTm(2024, 3, 1, 12, 0, 0)

\* t minus one second, in exact arithmetic
OneSecondBefore(tm) ==
    LET t == rtc_tm_to_time64(tm)
    IN  rtc_time64_to_tm(NormTime(t[1], t[2] - 1))

\* C4: after set_alarm(t, enabled = 1) returned 0 the alarm block holds t minus
\* one second, MCA_RTC_ALARM_EN is set and alarm_enabled is true; a read_alarm
\* that follows it and returns 0 gives t and enabled = 1.
C4_SetAlarmThenReadAlarm ==
    [][/\ (call'.op = "set_alarm" /\ call'.ret = 0 /\ call'.enabled = 1)
          => /\ mca_data_to_tm(regs'.alarm) = OneSecondBefore(call'.tm)
             /\ HasBit(regs'.control, MCA_RTC_ALARM_EN)
             /\ rtc'.alarm_enabled
       /\ (/\ call.op = "set_alarm" /\ call.ret = 0 /\ call.enabled = 1
           /\ call'.op = "read_alarm" /\ call'.ret = 0)
          => (call'.tm = call.tm /\ call'.enabled = 1)]_vars

\* C6: mca_rtc_alarm_irq_enable(e) whose register update succeeds returns 0
\* and leaves alarm_enabled and MCA_RTC_ALARM_EN equal to e; one whose update
\* fails returns the error and leaves alarm_enabled as it was.
C6_ArmedFlagOnlyOnSuccess ==
    [][call'.op = "alarm_irq_enable" =>
         IF call'.log[1].ok
         THEN /\ call'.ret = 0
              /\ rtc'.alarm_enabled = (call'.enabled = 1)
              /\ HasBit(regs'.control, MCA_RTC_ALARM_EN) = (call'.enabled = 1)
         ELSE /\ call'.ret = -EIO
              /\ rtc'.alarm_enabled = rtc.alarm_enabled]_vars

C6_Witness ==
    /\ call.op = "alarm_irq_enable"
    /\ call.enabled = 0
    /\ call.ret = -EIO
    /\ call.log = <<Update("MCA_RTC_CONTROL", MCA_RTC_ALARM_EN, 0, FALSE)>>
    /\ rtc.alarm_enabled
    /\ HasBit(regs.control, MCA_RTC_ALARM_EN)

\* C7: mca_rtc_set_alarm issues the bulk write of the alarm block first and
\* the update of MCA_RTC_ALARM_EN only after it succeeded; when the bulk
\* write fails it returns the error and neither the control register nor
\* alarm_enabled changes.
C7_AlarmWriteBeforeEnable ==
    [][call'.op = "set_alarm" =>
         /\ call'.log[1] = Access("bulk_write", "MCA_RTC_ALARM_YEAR_L", call'.log[1].ok)
         /\ \A i \in 1..Len(call'.log) :
               call'.log[i].kind = "update_bits" => (i = 2 /\ call'.log[1].ok)
         /\ ~call'.log[1].ok =>
               /\ call'.ret = -EIO
               /\ Len(call'.log) = 1
               /\ regs'.control = regs.control
               /\ rtc'.alarm_enabled = rtc.alarm_enabled]_vars

C7_Witness ==
    /\ call.op = "set_alarm"
    /\ call.enabled = 1
    /\ call.ret = -EIO
    /\ call.log = <<Access("bulk_write", "MCA_RTC_ALARM_YEAR_L", FALSE)>>
    /\ ~rtc.alarm_enabled
    /\ ~HasBit(regs.control, MCA_RTC_ALARM_EN)
    /\ regs.alarm = PowerOnData

\* a step of mca_rtc_suspend / of mca_rtc_resume
SuspendStep == ~suspended /\ suspended'
ResumeStep == suspended /\ ~suspended'

\* C10: mca_rtc_suspend with alarm_enabled true and the device no wake source
\* issues the clearing of MCA_RTC_ALARM_EN, which is clear once the update
\* succeeds; the resume that follows issues its setting, and it is set once
\* that update succeeds; alarm_enabled is true at every step in between.
\* With the device a wake source or alarm_enabled false, suspend and resume
\* access no register.
C10_SuspendResume ==
    [][/\ (SuspendStep \/ ResumeStep) =>
             IF rtc.alarm_enabled /\ ~may_wakeup
             THEN /\ call'.log = <<Update("MCA_RTC_CONTROL", MCA_RTC_ALARM_EN,
                                          IF SuspendStep THEN 0 ELSE MCA_RTC_ALARM_EN,
                                          call'.log[1].ok)>>
                  /\ call'.log[1].ok =>
                        HasBit(regs'.control, MCA_RTC_ALARM_EN) = ResumeStep
                  /\ rtc'.alarm_enabled
             ELSE /\ call'.log = <<>>
                  /\ regs' = regs
       /\ suspended =>
             /\ rtc'.alarm_enabled = rtc.alarm_enabled
             /\ may_wakeup' = may_wakeup]_vars

C10_Witness ==
    /\ call.op = "resume"
    /\ ~suspended
    /\ call.log = <<Update("MCA_RTC_CONTROL", MCA_RTC_ALARM_EN, MCA_RTC_ALARM_EN, TRUE)>>
    /\ HasBit(regs.control, MCA_RTC_ALARM_EN)
    /\ rtc.alarm_enabled
    /\ ~may_wakeup

-----------------------------------------------------------------------------
(* Properties of the interrupt handlers *)

HandlerEvents ==
    [mca_alarm_event |-> {"RTC_IRQF", "RTC_AF"},
     mca_1HZ_event |-> {"RTC_UF"},
     mca_periodic_irq_event |-> {"RTC_PF"}]

\* C9: every run of an interrupt handler notifies the RTC core exactly once,
\* of the event of its line (alarm: RTC_AF, 1 Hz: RTC_UF, periodic: RTC_PF),
\* and returns IRQ_HANDLED whether or not the core passed the event on, and
\* the handler accesses no register.
C9_HandlersNotifyOnceAndReturnHandled ==
    call.op \in DOMAIN HandlerEvents =>
        /\ Len(call.notified) = 1
        /\ call.notified[1].events = HandlerEvents[call.op]
        /\ call.ret = IRQ_HANDLED
        /\ call.log = <<>>

C9_Witness ==
    /\ call.op = "mca_alarm_event"
    /\ call.notified = <<Notify({"RTC_IRQF", "RTC_AF"}, FALSE)>>
    /\ call.ret = IRQ_HANDLED
    /\ rtc.alarm_enabled

-----------------------------------------------------------------------------
(* Properties of callers inside the driver at once *)

\* C8: whenever a call of set_alarm has not yet completed the write of its
\* alarm block, the alarm enable bit of the hardware is clear, so that the
\* alarm cannot fire on a block that is not the one being programmed; this
\* for an alarm that was unarmed and for one that was armed before the call.
C8_NoWriteWhileArmed ==
    \A i \in Tasks :
        task[i].op = "set_alarm" /\ task[i].pc = "bulk_write"
            => ~HasBit(regs.control, MCA_RTC_ALARM_EN)

-----------------------------------------------------------------------------
(* Properties of the power hooks *)

PoweroffStep == ~off /\ off'

\* C11: mca_rtc_suspend, run as the suspend or as the poweroff hook, and
\* mca_rtc_resume return 0 whatever becomes of their register update, and
\* leave alarm_enabled as it was.
C11_PowerHooksReportSuccess ==
    [][(SuspendStep \/ ResumeStep \/ PoweroffStep) =>
          /\ call'.op \in {"suspend", "resume", "poweroff"}
          /\ call'.ret = 0
          /\ rtc'.alarm_enabled = rtc.alarm_enabled]_vars

\* a resume whose update failed: success reported, the alarm armed by the
\* flag and disarmed in the hardware
C11_Witness ==
    /\ call.op = "resume"
    /\ call.log = <<Update("MCA_RTC_CONTROL", MCA_RTC_ALARM_EN, MCA_RTC_ALARM_EN, FALSE)>>
    /\ call.ret = 0
    /\ rtc.alarm_enabled
    /\ ~HasBit(regs.control, MCA_RTC_ALARM_EN)

-----------------------------------------------------------------------------
(* Properties of the reads: validation and the prepare handshake *)

\* the block a read decodes: the registers are as the call left them
DecodedBlock == IF call.op = "read_time" THEN regs.clock ELSE regs.alarm

\* the bulk read of the call succeeded
BulkReadOk(c) ==
    \E i \in 1..Len(c.log) : c.log[i].kind = "bulk_read" /\ c.log[i].ok

\* C12: read_time and read_alarm return an error, not 0, whenever the block
\* they read decodes to fields that fail rtc_valid_tm.
C12_InvalidDecodeRejected ==
    (call.op \in {"read_time", "read_alarm"} /\ BulkReadOk(call)
        /\ rtc_valid_tm(mca_data_to_tm(DecodedBlock)) # 0)
    => call.ret # 0

\* the transactions of a call other than the prepare write
AfterPrepare(c) == SelectSeq(c.log, LAMBDA a : a.kind # "write")

\* what a read returns when its bulk read and the reads after it succeed
ReadResult ==
    IF call.op = "read_time"
    THEN [ret |-> rtc_valid_tm(ReadTimeTm[regs.clock]), tm |-> ReadTimeTm[regs.clock]]
    ELSE [ret |-> 0, tm |-> ReadAlarmTm[BITS_PER_LONG][regs.alarm]]

\* C13: read_time and read_alarm issue the bulk read whether or not the
\* prepare write failed, and with the reads successful they return what the
\* registers hold, the same with a failed as with a successful prepare write;
\* a failed bulk read ends the call with the transport error, nothing decoded.
C13_PrepareFailureNotFatal ==
    call.op \in {"read_time", "read_alarm"} =>
        /\ AfterPrepare(call) # <<>>
        /\ AfterPrepare(call)[1].kind = "bulk_read"
        /\ AfterPrepare(call)[1].ok =>
              /\ call.tm = ReadResult.tm
              /\ (\A i \in 1..Len(AfterPrepare(call)) : AfterPrepare(call)[i].ok)
                    => call.ret = ReadResult.ret
        /\ ~AfterPrepare(call)[1].ok =>
              /\ call.ret = -EIO
              /\ call.tm = NoTm
              /\ Len(AfterPrepare(call)) = 1

\* read_alarm after a set_alarm: the prepare write failed, the alarm time
\* is returned all the same
C13_Witness ==
    /\ call.op = "read_alarm"
    /\ call.log[1] = Write("MCA_RTC_PREPARE_ALARM", MCA_RTC_ACQUIRE_REQUESTED, FALSE)
    /\ call.log[2] = Access("bulk_read", "MCA_RTC_ALARM_YEAR_L", TRUE)
    /\ call.ret = 0
    /\ call.tm = MkTm(2024, 3, 1, 12, 0, 0)
    /\ regs.alarm = <<232, 7, 3, 1, 11, 59, 59>>

-----------------------------------------------------------------------------
(* Properties of the legacy ioctl *)

\* C14: RTC_MCA_IRQP_SET with 0 Hz returns an error: it neither divides by
\* zero nor writes MCA_RTC_PERIODIC_IRQ_FREQ.
C14_IrqpSetZeroRejected ==
    (call.op = "ioctl" /\ call.cmd = "RTC_MCA_IRQP_SET" /\ call.arg = 0) =>
        /\ ~call.fault
        /\ call.ret < 0
        /\ call.log = <<>>

\* the control register outside the bits of mask
Outside(control, mask) == BitAnd(control, NotU8(mask))

\* a step of mca_rtc_ioctl: the call recorded is an ioctl, and the step is not
\* the hardware latching the alarm interrupt after it
IoctlStep == call'.op = "ioctl" /\ regs'.irq_status = regs.irq_status

\* C16: RTC_MCA_UIE_ON / _OFF change no bit of MCA_RTC_CONTROL but
\* MCA_RTC_1HZ_EN, which they set / clear; RTC_MCA_PIE_ON / _OFF the same
\* with MCA_RTC_PERIODIC_EN; neither changes alarm_enabled; a command outside
\* the six of the driver returns -ENOIOCTLCMD and accesses no register.
C16_IoctlFrame ==
    [][IoctlStep =>
         /\ rtc' = rtc
         /\ call'.cmd \in {"RTC_MCA_UIE_ON", "RTC_MCA_UIE_OFF"} =>
               /\ Outside(regs'.control, MCA_RTC_1HZ_EN)
                     = Outside(regs.control, MCA_RTC_1HZ_EN)
               /\ call'.ret = 0 =>
                     HasBit(regs'.control, MCA_RTC_1HZ_EN)
                        = (call'.cmd = "RTC_MCA_UIE_ON")
         /\ call'.cmd \in {"RTC_MCA_PIE_ON", "RTC_MCA_PIE_OFF"} =>
               /\ Outside(regs'.control, MCA_RTC_PERIODIC_EN)
                     = Outside(regs.control, MCA_RTC_PERIODIC_EN)
               /\ call'.ret = 0 =>
                     HasBit(regs'.control, MCA_RTC_PERIODIC_EN)
                        = (call'.cmd = "RTC_MCA_PIE_ON")
         /\ call'.cmd \notin {"RTC_MCA_UIE_ON", "RTC_MCA_UIE_OFF", "RTC_MCA_PIE_ON",
                              "RTC_MCA_PIE_OFF", "RTC_MCA_IRQP_READ",
                              "RTC_MCA_IRQP_SET"} =>
               /\ call'.ret = -ENOIOCTLCMD
               /\ call'.log = <<>>
               /\ regs' = regs]_vars

\* RTC_MCA_UIE_OFF with the alarm armed and the periodic interrupt enabled:
\* both stay as they were
C16_Witness ==
    /\ call.op = "ioctl"
    /\ call.cmd = "RTC_MCA_UIE_OFF"
    /\ call.ret = 0
    /\ ~HasBit(regs.control, MCA_RTC_1HZ_EN)
    /\ HasBit(regs.control, MCA_RTC_PERIODIC_EN)
    /\ HasBit(regs.control, MCA_RTC_ALARM_EN)
    /\ HasBit(regs.control, MCA_RTC_EN)
    /\ rtc.alarm_enabled

-----------------------------------------------------------------------------
(* Properties of a failing set_alarm *)

\* set_alarm failed in its bulk write: the alarm block is not stored
FailedInWrite(c) ==
    c.op = "set_alarm" /\ Len(c.log) = 1 /\ ~c.log[1].ok

\* set_alarm failed in mca_rtc_alarm_irq_enable: the alarm block is stored
FailedInEnable(c) ==
    c.op = "set_alarm" /\ Len(c.log) = 2 /\ c.log[1].ok /\ ~c.log[2].ok

\* C15: a set_alarm that fails in the enable step returns a result other than
\* the one of a set_alarm that fails in the write of the alarm block, so that
\* the caller can tell the two apart (here: of two calls one after the other)
C15_FailedPhaseDistinguishable ==
    [][(FailedInWrite(call) /\ FailedInEnable(call')) => call'.ret # call.ret]_vars

-----------------------------------------------------------------------------
(* Properties over every entry point of the driver *)

\* the transactions of a read that wants the prepare handshake: the write of
\* MCA_RTC_ACQUIRE_REQUESTED to the prepare register of its kind, then the
\* bulk read of its block, and no other write
WithPrepare(c, prepareReg, blockReg) ==
    /\ Len(c.log) >= 2
    /\ c.log[1] = Write(prepareReg, MCA_RTC_ACQUIRE_REQUESTED, c.log[1].ok)
    /\ c.log[2].kind = "bulk_read" /\ c.log[2].reg = blockReg
    /\ \A i \in 2..Len(c.log) : c.log[i].kind \in {"bulk_read", "read"}

\* the transactions of a read without the handshake: the bulk read of its
\* block first, and no write at all
WithoutPrepare(c, blockReg) ==
    /\ Len(c.log) >= 1
    /\ c.log[1].kind = "bulk_read" /\ c.log[1].reg = blockReg
    /\ \A i \in 1..Len(c.log) : c.log[i].kind \in {"bulk_read", "read"}

\* C17: with prepare_enabled set, read_time writes MCA_RTC_ACQUIRE_REQUESTED
\* to MCA_RTC_PREPARE_DATETIME and read_alarm to MCA_RTC_PREPARE_ALARM, each
\* before the bulk read of its block; with it clear neither writes any
\* register; and no step of the driver changes prepare_enabled.
C17_PrepareGatingAndOrder ==
    [][/\ rtc'.prepare_enabled = rtc.prepare_enabled
       /\ call'.op = "read_time" =>
             IF rtc.prepare_enabled
             THEN WithPrepare(call', "MCA_RTC_PREPARE_DATETIME", "MCA_RTC_COUNT_YEAR_L")
             ELSE WithoutPrepare(call', "MCA_RTC_COUNT_YEAR_L")
       /\ call'.op = "read_alarm" =>
             IF rtc.prepare_enabled
             THEN WithPrepare(call', "MCA_RTC_PREPARE_ALARM", "MCA_RTC_ALARM_YEAR_L")
             ELSE WithoutPrepare(call', "MCA_RTC_ALARM_YEAR_L")]_vars

C17_Witness ==
    /\ rtc.prepare_enabled
    /\ call.op = "read_alarm"
    /\ call.ret = 0
    /\ call.log = <<Write("MCA_RTC_PREPARE_ALARM", MCA_RTC_ACQUIRE_REQUESTED, TRUE),
                    Access("bulk_read", "MCA_RTC_ALARM_YEAR_L", TRUE),
                    Access("read", "MCA_RTC_CONTROL", TRUE),
                    Access("read", "MCA_IRQ_STATUS_0", TRUE)>>

\* C18: alarm_enabled changes only in a call of alarm_irq_enable, made
\* directly or by set_alarm, that returns 0, and then to the value of its
\* enabled argument; read_time, set_time, read_alarm, the ioctl, the three
\* interrupt handlers, suspend, resume and poweroff leave it as it was.
C18_ArmedFlagWriters ==
    [][rtc'.alarm_enabled # rtc.alarm_enabled =>
          /\ call'.op \in {"alarm_irq_enable", "set_alarm"}
          /\ call'.ret = 0
          /\ rtc'.alarm_enabled = (call'.enabled # 0)]_vars

\* the alarm interrupt handled with the alarm armed: it stays armed
C18_Witness ==
    /\ call.op = "mca_alarm_event"
    /\ rtc.alarm_enabled
    /\ HasBit(regs.control, MCA_RTC_ALARM_EN)
    /\ ~HasBit(regs.irq_status, MCA_RTC_ALARM)

-----------------------------------------------------------------------------
(* Properties of the alarm calls and power hooks on a transport that never
   fails *)

\* MCA_RTC_ALARM_EN equals alarm_enabled
ArmedAgree == HasBit(regs.control, MCA_RTC_ALARM_EN) = rtc.alarm_enabled

\* C19, as stated: whenever the device is not between a suspend and its
\* resume, MCA_RTC_ALARM_EN equals alarm_enabled, the wake setting changing
\* between any two calls.
C19_ArmedFlagMatchesHardware == ~suspended => ArmedAgree

\* C19, amended: whenever the device is not between a suspend and its resume,
\* MCA_RTC_ALARM_EN equals alarm_enabled, provided the wake setting was never
\* changed between a suspend and its matching resume.
C19_ArmedFlagMatchesHardwareWakeFixedAsleep ==
    (~suspended /\ ~wake_moved) => ArmedAgree

\* resumed with the alarm armed and muted during the suspension, the wake
\* setting having been changed, but before the suspend
C19_Witness ==
    /\ ~suspended
    /\ ~wake_moved
    /\ ~may_wakeup
    /\ call.op = "resume"
    /\ call.log = <<Update("MCA_RTC_CONTROL", MCA_RTC_ALARM_EN, MCA_RTC_ALARM_EN, TRUE)>>
    /\ rtc.alarm_enabled
    /\ HasBit(regs.control, MCA_RTC_ALARM_EN)
    /\ regs.alarm # PowerOnData

\* C20: when no call of alarm_irq_enable or resume is under way any more, all
\* of them having succeeded, and the device is not suspended,
\* MCA_RTC_ALARM_EN equals alarm_enabled, however the steps of two calls
\* under way at once were interleaved.
C20_ConcurrentCallsAgree ==
    (task = NoTasks /\ ~suspended) => ArmedAgree

=============================================================================
